---- MODULE Spec2Model ----
(***************************************************************************)
(* A model of stellr, a small in-memory full-text search engine:           *)
(*   - the Patricia trie of trie.go (Insert, Search, StartsWith,           *)
(*     FuzzySearch) over a heap of posting sets (roaring bitmaps),         *)
(*   - the Levenshtein kernel of levenshtein.go,                           *)
(*   - the index builder, the query evaluator and the ranker of main.go,   *)
(*   - the two HTTP handlers of main.go and the RWMutex between them.      *)
(* Strings are sequences of characters; a posting set is a set of ids kept *)
(* in a heap and referred to by its handle, as the code refers to a        *)
(* *roaring.Bitmap; handle 0 is the nil pointer.                           *)
(***************************************************************************)
EXTENDS Integers, Sequences, FiniteSets, TLC

\* ------------------------------------------------------------------ bounds
\* Longest token and longest query key, in characters.
MaxLen == 3
\* Number of Insert calls in a run of the trie.
MaxInserts == 2
\* Largest fuzzy distance asked for.
MaxDist == 1
\* Number of documents added to an index builder, and of Build calls on it.
MaxDocs == 2
MaxBuilds == 2

Alphabet == {"a", "b"}
\* The terminator Insert, Search and FuzzySearch append to a key: string('\x00').
NUL == "NUL"

Strs(n) == UNION {[1..k -> Alphabet] : k \in 0..n}
Keys == Strs(MaxLen)
Tokens == Keys \ {<<>>}

Range(seq) == {seq[i] : i \in 1..Len(seq)}
Min(a, b) == IF a < b THEN a ELSE b
Min3(a, b, c) == Min(a, Min(b, c))

\* Go's s[from:to] on a string (0-based, half open).
Slice(s, from, to) == SubSeq(s, from + 1, to)
\* strings.HasPrefix(s, prefix)
HasPrefix(s, prefix) ==
  /\ Len(prefix) <= Len(s)
  /\ SubSeq(s, 1, Len(prefix)) = prefix

\* ------------------------------------------------------- levenshtein.go
\* The inner loop as it would be if a substitution always cost 1.
RECURSIVE LevRowUnitCost(_, _, _, _, _)
LevRowUnitCost(v0, v1, c, str2, j) ==
  IF j >= Len(str2) THEN v1
  ELSE LET cell == Min3(v1[j + 1] + 1, v0[j + 2] + 1, v0[j + 1] + 1)
       IN LevRowUnitCost(v0, Append(v1, cell), c, str2, j + 1)

\* One pass of the inner loop: the row v1 for character c of str1, from row
\* v0; rows are 1-based here, v[j+1] of the code is row[j+1].
RECURSIVE LevRow(_, _, _, _, _)
LevRow(v0, v1, c, str2, j) ==
  IF j >= Len(str2) THEN v1
  ELSE LET cost == IF c = str2[j + 1] THEN 0 ELSE 1
           cell == Min3(v1[j + 1] + 1, v0[j + 2] + 1, v0[j + 1] + cost)
       IN LevRow(v0, Append(v1, cell), c, str2, j + 1)

RECURSIVE LevRows(_, _, _, _)
LevRows(v0, str1, str2, i) ==
  IF i >= Len(str1) THEN v0
  ELSE LevRows(LevRow(v0, <<i + 1>>, str1[i + 1], str2, 0), str1, str2, i + 1)

LevenshteinDistance(str1, str2) ==
  IF Len(str1) = 0 THEN Len(str2)
  ELSE IF Len(str2) = 0 THEN Len(str1)
  ELSE IF str1 = str2 THEN 0
  ELSE LevRows([y \in 1..(Len(str2) + 1) |-> y - 1], str1, str2, 0)[Len(str2) + 1]

\* ---------------------------------------------------------------- trie.go
\* A node's parent edge: the side-table entry it slices and the label length.
NoEdge == [id |-> 0, len |-> 0]
\* node{parent, value, children}: value is a posting-set handle (0 = nil),
\* children the node indices in order (nil = <<>>).
NewNode(e, v) == [parent |-> e, value |-> v, children |-> <<>>]
Root == 1
NewPatriciaTrie == [nodes |-> <<NewNode(NoEdge, 0)>>, strings |-> <<>>]

isLeaf(t, n) == Len(t.nodes[n].children) = 0

\* The label of the edge into child c, whose parent sits at offset elementsFound.
EdgeLabel(t, c, elementsFound) ==
  Slice(t.strings[t.nodes[c].parent.id], elementsFound,
        elementsFound + t.nodes[c].parent.len)

RECURSIVE findChildFrom(_, _, _, _, _)
findChildFrom(t, children, i, key, elementsFound) ==
  IF i > Len(children) THEN 0
  ELSE IF HasPrefix(key, EdgeLabel(t, children[i], elementsFound)) THEN children[i]
  ELSE findChildFrom(t, children, i + 1, key, elementsFound)

\* findChild: the first child whose whole edge label is a prefix of key; 0 = nil.
findChild(t, n, key, elementsFound) ==
  findChildFrom(t, t.nodes[n].children, 1, key, elementsFound)

RECURSIVE Overlap(_, _, _)
Overlap(key, edgeLabel, overlap) ==
  IF overlap < Len(key) /\ key[overlap + 1] = edgeLabel[overlap + 1]
  THEN Overlap(key, edgeLabel, overlap + 1)
  ELSE overlap

RECURSIVE findPrefixFrom(_, _, _, _, _, _)
findPrefixFrom(t, n, children, i, key, elementsFound) ==
  IF i > Len(children) THEN [node |-> n, overlap |-> 0]
  ELSE LET overlap == Overlap(key, EdgeLabel(t, children[i], elementsFound), 0)
       IN IF overlap # 0 THEN [node |-> children[i], overlap |-> overlap]
          ELSE findPrefixFrom(t, n, children, i + 1, key, elementsFound)

\* findPrefix as it would be if it never found a child sharing a prefix.
findPrefixNone(t, n, key, elementsFound) == [node |-> n, overlap |-> 0]

\* findPrefix: the first child sharing a non-empty prefix with key, and the
\* length shared; (n, 0) when there is none.
findPrefix(t, n, key, elementsFound) ==
  findPrefixFrom(t, n, t.nodes[n].children, 1, key, elementsFound)

RECURSIVE searchFrom(_, _, _, _, _)
searchFrom(t, currentNode, key, elementsFound, lenKey) ==
  IF elementsFound = lenKey \/ Len(t.nodes[currentNode].children) = 0
  THEN [node |-> currentNode, elementsFound |-> elementsFound, overlap |-> 0]
  ELSE LET nextNode == findChild(t, currentNode, key, elementsFound)
       IN IF nextNode = 0
          THEN LET p == findPrefix(t, currentNode, key, elementsFound)
               IN [node |-> p.node, elementsFound |-> elementsFound + p.overlap,
                   overlap |-> p.overlap]
          ELSE searchFrom(t, nextNode,
                          Slice(key, t.nodes[nextNode].parent.len, Len(key)),
                          elementsFound + t.nodes[nextNode].parent.len, lenKey)

\* search: (node reached, characters of key consumed, overlap with a split edge)
search(t, key) == searchFrom(t, Root, key, 0, Len(key))

\* insertRootChild as it would be if the new leaf replaced the root's children.
insertRootChildReplacing(t, n, key, set) ==
  LET strings2 == Append(t.strings, key)
      e == [id |-> Len(strings2), len |-> Len(key)]
      childNode == Len(t.nodes) + 1
  IN [nodes |-> Append([t.nodes EXCEPT ![n].children = <<childNode>>],
                       NewNode(e, set)),
      strings |-> strings2]

\* insertRootChild: a new leaf for the whole key under the root.
insertRootChild(t, n, key, set) ==
  LET strings2 == Append(t.strings, key)
      e == [id |-> Len(strings2), len |-> Len(key)]
      childNode == Len(t.nodes) + 1
  IN [nodes |-> Append([t.nodes EXCEPT ![n].children = Append(@, childNode)],
                       NewNode(e, set)),
      strings |-> strings2]

\* The edge split as it would be if n kept its value (no n.value = nil).
SplitEdgeKeepValue(t, n, overlap) ==
  LET splitNode == Len(t.nodes) + 1
      old == t.nodes[n]
  IN [t EXCEPT !.nodes =
        Append([t.nodes EXCEPT ![n] = [parent |-> [id |-> old.parent.id, len |-> overlap],
                                       value |-> old.value,
                                       children |-> <<splitNode>>]],
               [parent |-> [id |-> old.parent.id, len |-> old.parent.len - overlap],
                value |-> old.value,
                children |-> old.children])]

\* The edge split of insertNode: the lower half of n's edge becomes a new node
\* that takes n's children and value; n keeps the upper half, of length overlap.
SplitEdge(t, n, overlap) ==
  LET splitNode == Len(t.nodes) + 1
      old == t.nodes[n]
  IN [t EXCEPT !.nodes =
        Append([t.nodes EXCEPT ![n] = [parent |-> [id |-> old.parent.id, len |-> overlap],
                                       value |-> 0,
                                       children |-> <<splitNode>>]],
               [parent |-> [id |-> old.parent.id, len |-> old.parent.len - overlap],
                value |-> old.value,
                children |-> old.children])]

\* insertNode as it would be if the new leaf's edge kept n's side-table entry
\* and not the entry of the key just appended.
insertNodeOldEntry(t, n, key, set, elementsFound, overlap) ==
  LET t1 == IF overlap # 0 THEN SplitEdge(t, n, overlap) ELSE t
      strings2 == Append(t1.strings, key)
      newEdge == [id |-> t.nodes[n].parent.id, len |-> Len(key) - elementsFound]
      newNode == Len(t1.nodes) + 1
  IN [nodes |-> Append([t1.nodes EXCEPT ![n].children = Append(@, newNode)],
                       NewNode(newEdge, set)),
      strings |-> strings2]

\* insertNode: split n's edge when the key diverges inside it, then hang a new
\* leaf for the rest of the key under n.
insertNode(t, n, key, set, elementsFound, overlap) ==
  LET t1 == IF overlap # 0 THEN SplitEdge(t, n, overlap) ELSE t
      strings2 == Append(t1.strings, key)
      newEdge == [id |-> Len(strings2), len |-> Len(key) - elementsFound]
      newNode == Len(t1.nodes) + 1
  IN [nodes |-> Append([t1.nodes EXCEPT ![n].children = Append(@, newNode)],
                       NewNode(newEdge, set)),
      strings |-> strings2]

\* Insert as it would be if a repeated key replaced the stored posting set.
InsertReplacing(t, heap, key0, set) ==
  LET key == Append(key0, NUL)
      r == search(t, key)
  IN IF r.elementsFound = Len(key)
     THEN [trie |-> t,
           heap |-> [heap EXCEPT ![t.nodes[r.node].value] = heap[set]]]
     ELSE IF r.elementsFound = 0
     THEN [trie |-> insertRootChild(t, r.node, key, set), heap |-> heap]
     ELSE [trie |-> insertNode(t, r.node, key, set, r.elementsFound, r.overlap),
           heap |-> heap]

\* Insert(key, set): the trie and the heap afterwards. A key that ends at an
\* existing terminal unions set into the stored posting set (value.Or(set)).
Insert(t, heap, key0, set) ==
  LET key == Append(key0, NUL)
      r == search(t, key)
  IN IF r.elementsFound = Len(key)
     THEN [trie |-> t,
           heap |-> [heap EXCEPT ![t.nodes[r.node].value] = @ \cup heap[set]]]
     ELSE IF r.elementsFound = 0
     THEN [trie |-> insertRootChild(t, r.node, key, set), heap |-> heap]
     ELSE [trie |-> insertNode(t, r.node, key, set, r.elementsFound, r.overlap),
           heap |-> heap]

\* *IndexResult: nil, a result {set, tokens} (set a handle, 0 = nil), or no
\* result at all because the call panicked on a nil dereference.
NilResult == [kind |-> "nil", set |-> 0, tokens |-> <<>>]
PanicResult == [kind |-> "panic", set |-> 0, tokens |-> <<>>]
IndexResult(set, tokens) == [kind |-> "ok", set |-> set, tokens |-> tokens]

\* The token a node's side-table entry spells: strings[id] without terminator.
Label(t, n) ==
  LET label == t.strings[t.nodes[n].parent.id]
  IN Slice(label, 0, Len(label) - 1)

\* Search as it would be if the key went in without its terminator.
SearchUnterminated(t, key0) ==
  LET r == search(t, key0)
  IN IF r.elementsFound = Len(key0)
     THEN IF t.nodes[r.node].parent = NoEdge THEN PanicResult
          ELSE IndexResult(t.nodes[r.node].value, <<Label(t, r.node)>>)
     ELSE NilResult

\* Search(key): the stored posting set itself (not a copy) and the token.
Search(t, key0) ==
  LET key == Append(key0, NUL)
      r == search(t, key)
  IN IF r.elementsFound = Len(key)
     THEN IF t.nodes[r.node].parent = NoEdge THEN PanicResult
          ELSE IndexResult(t.nodes[r.node].value, <<Label(t, r.node)>>)
     ELSE NilResult

\* CombineOr as it would be if it intersected, as CombineAnd does.
CombineOrIntersecting(r, res, heap) ==
  IF res.set = 0 THEN [res |-> PanicResult, heap |-> heap]
  ELSE IF r.set = 0
  THEN [res |-> IndexResult(Len(heap) + 1, r.tokens \o res.tokens),
        heap |-> Append(heap, heap[res.set])]
  ELSE [res |-> IndexResult(r.set, r.tokens \o res.tokens),
        heap |-> [heap EXCEPT ![r.set] = @ \cap heap[res.set]]]

\* r.CombineOr(res): [res |-> r afterwards, heap |-> the heap afterwards].
CombineOr(r, res, heap) ==
  IF res.set = 0 THEN [res |-> PanicResult, heap |-> heap]
  ELSE IF r.set = 0
  THEN [res |-> IndexResult(Len(heap) + 1, r.tokens \o res.tokens),
        heap |-> Append(heap, heap[res.set])]
  ELSE [res |-> IndexResult(r.set, r.tokens \o res.tokens),
        heap |-> [heap EXCEPT ![r.set] = @ \cup heap[res.set]]]

\* CombineAnd as it would be if an empty r took res.set itself, not a Clone.
CombineAndAliasing(r, res, heap) ==
  IF res.set = 0 THEN [res |-> PanicResult, heap |-> heap]
  ELSE IF r.set = 0
  THEN [res |-> IndexResult(res.set, r.tokens \o res.tokens), heap |-> heap]
  ELSE [res |-> IndexResult(r.set, r.tokens \o res.tokens),
        heap |-> [heap EXCEPT ![r.set] = @ \cap heap[res.set]]]

\* r.CombineAnd(res)
CombineAnd(r, res, heap) ==
  IF res.set = 0 THEN [res |-> PanicResult, heap |-> heap]
  ELSE IF r.set = 0
  THEN [res |-> IndexResult(Len(heap) + 1, r.tokens \o res.tokens),
        heap |-> Append(heap, heap[res.set])]
  ELSE [res |-> IndexResult(r.set, r.tokens \o res.tokens),
        heap |-> [heap EXCEPT ![r.set] = @ \cap heap[res.set]]]

RECURSIVE mergeChildren(_, _, _, _)
RECURSIVE mergeEach(_, _, _, _, _)
\* mergeChildren: every leaf below n adds its token and its posting set.
mergeChildren(t, n, result, heap) ==
  IF isLeaf(t, n)
  THEN IF t.nodes[n].parent = NoEdge \/ t.nodes[n].value = 0
       THEN [res |-> PanicResult, heap |-> heap]
       ELSE [res |-> IndexResult(result.set, Append(result.tokens, Label(t, n))),
             heap |-> [heap EXCEPT ![result.set] = @ \cup heap[t.nodes[n].value]]]
  ELSE mergeEach(t, t.nodes[n].children, 1, result, heap)

mergeEach(t, children, i, result, heap) ==
  IF i > Len(children) \/ result.kind = "panic"
  THEN [res |-> result, heap |-> heap]
  ELSE LET m == mergeChildren(t, children[i], result, heap)
       IN mergeEach(t, children, i + 1, m.res, m.heap)

\* StartsWith as it would be if a prefix had to end at a node, not inside an edge.
StartsWithAtNode(t, key, heap) ==
  LET r == search(t, key)
  IN IF r.elementsFound = Len(key) /\ r.overlap = 0
     THEN mergeChildren(t, r.node, IndexResult(Len(heap) + 1, <<>>), Append(heap, {}))
     ELSE [res |-> NilResult, heap |-> heap]

\* StartsWith(key): key is not terminated; the union over the subtree where the
\* descent consumed the whole key, in a fresh posting set.
StartsWith(t, key, heap) ==
  LET r == search(t, key)
  IN IF r.elementsFound = Len(key)
     THEN mergeChildren(t, r.node, IndexResult(Len(heap) + 1, <<>>), Append(heap, {}))
     ELSE [res |-> NilResult, heap |-> heap]

RECURSIVE fuzzySearch(_, _, _, _, _, _)
RECURSIVE fuzzyEach(_, _, _, _, _, _, _)
\* fuzzySearch as it would be if a leaf were matched on the distance to the cut
\* key, without the second look at the whole key.
fuzzySearchCutKey(t, node, key, limit, length0, matchedNodes) ==
  LET hasParent == t.nodes[node].parent # NoEdge
      length == IF hasParent THEN length0 + t.nodes[node].parent.len ELSE length0
      partialStr == IF hasParent
                    THEN Slice(t.strings[t.nodes[node].parent.id], 0, length)
                    ELSE <<>>
      distance == LevenshteinDistance(partialStr, Slice(key, 0, Min(Len(key), length)))
      below == IF distance <= limit
               THEN fuzzyEach(t, t.nodes[node].children, 1, key, limit, length,
                              matchedNodes)
               ELSE matchedNodes
  IN IF isLeaf(t, node) /\ distance <= limit THEN Append(below, node)
     ELSE below

\* fuzzySearch: the leaves matched below node, appended to matchedNodes. The
\* children are visited only while the path so far is within limit of the key
\* cut to the path's length; a leaf is matched on its distance to the whole key.
fuzzySearch(t, node, key, limit, length0, matchedNodes) ==
  LET hasParent == t.nodes[node].parent # NoEdge
      length == IF hasParent THEN length0 + t.nodes[node].parent.len ELSE length0
      partialStr == IF hasParent
                    THEN Slice(t.strings[t.nodes[node].parent.id], 0, length)
                    ELSE <<>>
      l == Min(Len(key), length)
      k == Slice(key, 0, l)
      distance == LevenshteinDistance(partialStr, k)
      below == IF distance <= limit
               THEN fuzzyEach(t, t.nodes[node].children, 1, key, limit, length,
                              matchedNodes)
               ELSE matchedNodes
      leafDistance == IF l < Len(key) THEN LevenshteinDistance(partialStr, key)
                      ELSE distance
  IN IF isLeaf(t, node) /\ leafDistance <= limit THEN Append(below, node)
     ELSE below

fuzzyEach(t, children, i, key, limit, length, matchedNodes) ==
  IF i > Len(children) THEN matchedNodes
  ELSE fuzzyEach(t, children, i + 1, key, limit, length,
                 fuzzySearch(t, children[i], key, limit, length, matchedNodes))

RECURSIVE fuzzyCombine(_, _, _, _, _)
fuzzyCombine(t, nodes, i, res, heap) ==
  IF i > Len(nodes) \/ res.kind = "panic" THEN [res |-> res, heap |-> heap]
  ELSE IF t.nodes[nodes[i]].parent = NoEdge
  THEN [res |-> PanicResult, heap |-> heap]
  ELSE LET c == CombineOr(res,
                          IndexResult(t.nodes[nodes[i]].value, <<Label(t, nodes[i])>>),
                          heap)
       IN fuzzyCombine(t, nodes, i + 1, c.res, c.heap)

\* FuzzySearch as it would be if the key went in without its terminator.
FuzzySearchUnterminated(t, key0, limit, heap) ==
  LET nodes == fuzzySearch(t, Root, key0, limit, 0, <<>>)
  IN fuzzyCombine(t, nodes, 1, IndexResult(Len(heap) + 1, <<>>), Append(heap, {}))

\* FuzzySearch(key, limit): the union over the matched leaves, in a fresh
\* posting set; never nil.
FuzzySearch(t, key0, limit, heap) ==
  LET key == Append(key0, NUL)
      nodes == fuzzySearch(t, Root, key, limit, 0, <<>>)
  IN fuzzyCombine(t, nodes, 1, IndexResult(Len(heap) + 1, <<>>), Append(heap, {}))

\* ---------------------------------------------------------------- main.go
\* float64 values are kept in fixed point, in units of 1/Unit.
Unit == 1000
Mul(a, b) == (a * b) \div Unit
Quot(a, b) == (a * Unit) \div b
\* math.Log of a small whole number, in units of 1/Unit.
LnTable == <<0, 693, 1099, 1386, 1609, 1792, 1946, 2079>>
\* math.Log(float64(num) / float64(den))
LogRatio(num, den) == LnTable[num] - LnTable[den]

RECURSIVE SqrtBetween(_, _, _)
SqrtBetween(n, lo, hi) ==
  IF hi - lo <= 1 THEN lo
  ELSE LET mid == (lo + hi) \div 2
       IN IF mid * mid <= n THEN SqrtBetween(n, mid, hi) ELSE SqrtBetween(n, lo, mid)
\* math.Sqrt of a value kept in units of 1/Unit^2, in units of 1/Unit.
Sqrt2(n) == SqrtBetween(n, 0, 46341)

RECURSIVE SumOver(_, _)
SumOver(f, S) ==
  IF S = {} THEN 0
  ELSE LET x == CHOOSE y \in S : TRUE IN f[x] + SumOver(f, S \ {x})

Letters == Alphabet
Separators == {" ", ","}
\* strings.ToLower on one character
ToLower(c) == IF c = "A" THEN "a" ELSE IF c = "B" THEN "b" ELSE c

RECURSIVE Fields(_, _, _, _)
Fields(text, i, word, out) ==
  IF i > Len(text) THEN (IF word = <<>> THEN out ELSE Append(out, word))
  ELSE IF text[i] \in Letters THEN Fields(text, i + 1, Append(word, text[i]), out)
  ELSE Fields(text, i + 1, <<>>, IF word = <<>> THEN out ELSE Append(out, word))

\* tokenize: lowercase, then the maximal runs of letters.
tokenize(text) == Fields([i \in 1..Len(text) |-> ToLower(text[i])], 1, <<>>, <<>>)

\* getTermFrequency: token -> count / len(tokens)
getTermFrequency(tokens) ==
  [token \in {tokens[i] : i \in 1..Len(tokens)} |->
     Quot(Cardinality({i \in 1..Len(tokens) : tokens[i] = token}), Len(tokens))]

RECURSIVE AddTokensNewOnly(_, _, _, _, _)
\* The loop of Add as it would be if the id went only into a new posting set.
AddTokensNewOnly(t, heap, tokens, i, id) ==
  IF i > Len(tokens) THEN [trie |-> t, heap |-> heap]
  ELSE LET result == Search(t, tokens[i])
           heap1 == IF result.kind = "nil" THEN Append(heap, {id}) ELSE heap
           set == IF result.kind = "nil" THEN Len(heap1) ELSE result.set
           r == Insert(t, heap1, tokens[i], set)
       IN AddTokensNewOnly(r.trie, r.heap, tokens, i + 1, id)

RECURSIVE AddTokens(_, _, _, _, _)
\* The loop of trieIndexBuilder.Add: look the token up, take its posting set or
\* a new one, add the id, and Insert the token with that same set.
AddTokens(t, heap, tokens, i, id) ==
  IF i > Len(tokens) THEN [trie |-> t, heap |-> heap]
  ELSE LET result == Search(t, tokens[i])
           heap1 == IF result.kind = "nil" THEN Append(heap, {}) ELSE heap
           set == IF result.kind = "nil" THEN Len(heap1) ELSE result.set
           heap2 == [heap1 EXCEPT ![set] = @ \cup {id}]
           r == Insert(t, heap2, tokens[i], set)
       IN AddTokens(r.trie, r.heap, tokens, i + 1, id)

\* trieIndexBuilder.Add(tokens, id)
BuilderAdd(t, heap, wfa, tokens, id) ==
  LET r == AddTokens(t, heap, tokens, 1, id)
  IN [trie |-> r.trie, heap |-> r.heap,
      wordFreqArray |-> Append(wfa, getTermFrequency(tokens))]

RECURSIVE walkIn(_, _, _)
RECURSIVE walkEach(_, _, _, _)
\* The loop of walkIn as it would be if it went into the first child only.
walkEachFirst(t, children, i, path) ==
  IF i > Len(children) \/ i > 1 THEN path
  ELSE walkIn(t, children[i], path)

\* Traversal: (set, token) of every node that holds a value, in walk order.
walkIn(t, curr, path) ==
  LET path1 == IF t.nodes[curr].value = 0 THEN path
               ELSE Append(path, [set |-> t.nodes[curr].value, token |-> Label(t, curr)])
  IN walkEach(t, t.nodes[curr].children, 1, path1)

walkEach(t, children, i, path) ==
  IF i > Len(children) THEN path
  ELSE walkEach(t, children, i + 1, walkIn(t, children[i], path))

Traversal(t) == walkIn(t, Root, <<>>)

\* computeNorm: the sum of the squares of the values of a map
computeNorm(tfIdf) == SumOver([token \in DOMAIN tfIdf |-> Mul(tfIdf[token], tfIdf[token])],
                              DOMAIN tfIdf)

NoIndex == [built |-> FALSE, idf |-> <<>>, norms |-> <<>>, defaultIdf |-> 0]

\* trieIndexBuilder.Build: the IDF table from the Traversal, every term
\* frequency map multiplied in place by its tokens' IDF, the norms. The index
\* shares the trie, the posting sets and the maps with the builder.
Build(t, heap, wfa) ==
  LET nDocs == Len(wfa)
      tokenSets == Traversal(t)
      idf == [token \in {tokenSets[i].token : i \in 1..Len(tokenSets)} |->
                LET ts == CHOOSE x \in Range(tokenSets) : x.token = token
                IN LogRatio(nDocs, Cardinality(heap[ts.set]))]
      missing == \E i \in 1..nDocs : ~(DOMAIN wfa[i] \subseteq DOMAIN idf)
      wfa1 == [i \in 1..nDocs |->
                 [token \in DOMAIN wfa[i] |-> Mul(wfa[i][token], idf[token])]]
  IN IF missing
     THEN [panic |-> TRUE, wordFreqArray |-> wfa, index |-> NoIndex]
     ELSE [panic |-> FALSE,
           wordFreqArray |-> wfa1,
           index |-> [built |-> TRUE,
                      idf |-> idf,
                      norms |-> [i \in 1..nDocs |-> computeNorm(wfa1[i])],
                      defaultIdf |-> 0 - LnTable[nDocs + 1]]]

SearchTypes == {"ExactSearch", "PrefixSearch", "FuzzySearch"}
Operators == {"Or", "And"}

\* searchFn(token) of trieSearchIndex.Search: [res, heap]
Lookup(t, heap, searchType, distance, token) ==
  IF searchType = "ExactSearch" THEN [res |-> Search(t, token), heap |-> heap]
  ELSE IF searchType = "PrefixSearch" THEN StartsWith(t, token, heap)
  ELSE FuzzySearch(t, token, distance, heap)

RECURSIVE SearchFold(_, _, _, _, _, _, _, _)
\* The loop of trieSearchIndex.Search over the query's tokens: a nil lookup is
\* passed over, any other is combined into r.
SearchFold(t, heap, tokens, i, searchType, operator, distance, r) ==
  IF i > Len(tokens) \/ r.kind = "panic" THEN [res |-> r, heap |-> heap]
  ELSE LET l == Lookup(t, heap, searchType, distance, tokens[i])
       IN IF l.res.kind = "panic" THEN [res |-> PanicResult, heap |-> l.heap]
          ELSE IF l.res.kind = "nil"
          THEN SearchFold(t, l.heap, tokens, i + 1, searchType, operator, distance, r)
          ELSE LET c == IF operator = "And" THEN CombineAnd(r, l.res, l.heap)
                        ELSE CombineOr(r, l.res, l.heap)
               IN SearchFold(t, c.heap, tokens, i + 1, searchType, operator, distance,
                             c.res)

\* trieSearchIndex.Search(query, searchType, operator, distance): [res, heap]
IndexSearch(t, heap, query, searchType, operator, distance) ==
  SearchFold(t, heap, tokenize(query), 1, searchType, operator, distance,
             IndexResult(0, <<>>))

RECURSIVE Ascending(_)
Ascending(S) ==
  IF S = {} THEN <<>>
  ELSE LET m == CHOOSE x \in S : \A y \in S : x <= y
       IN <<m>> \o Ascending(S \ {m})
\* IndexResult.DocIds: the ids of the posting set in ascending order, none for
\* a result whose set is still nil.
DocIds(res, heap) == IF res.set = 0 THEN <<>> ELSE Ascending(heap[res.set])

\* 1 / math.Sqrt(queryNorm*norm + 1e-8); 1e-8 is below the resolution kept and
\* only decides the value at queryNorm*norm = 0, which is 1e4.
InvNorm(queryNorm, norm) ==
  IF queryNorm * norm <= 0 THEN 10000 * Unit
  ELSE (Unit * Unit) \div Sqrt2(queryNorm * norm)

\* One pass of the candidate loop of Rank: result[i] for document id. The id
\* is stored inside the loop over the query's terms.
RankEntry(index, wfa, termFreqs, id) ==
  LET tfIdf == wfa[id + 1]
      tokenIdf(token) == IF token \in DOMAIN index.idf THEN index.idf[token]
                         ELSE index.defaultIdf
      refValue(token) == IF token \in DOMAIN tfIdf THEN tfIdf[token] ELSE 0
      dot == SumOver([token \in DOMAIN termFreqs |->
                        Mul(Mul(termFreqs[token], tokenIdf(token)), refValue(token))],
                     DOMAIN termFreqs)
      queryNorm == SumOver([token \in DOMAIN termFreqs |->
                              Mul(Mul(Mul(termFreqs[token], termFreqs[token]),
                                      tokenIdf(token)), tokenIdf(token))],
                           DOMAIN termFreqs)
  IN [id |-> IF DOMAIN termFreqs = {} THEN 0 ELSE id,
      score |-> Mul(dot, InvNorm(queryNorm, index.norms[id + 1]))]

\* The candidate loop as it would be if queryNorm were declared outside it and
\* so kept adding up from one candidate to the next.
ScoredAccumulating(index, wfa, tokens, docIds) ==
  [i \in 1..Len(docIds) |->
     LET termFreqs == getTermFrequency(tokens)
         id == docIds[i]
         tfIdf == wfa[id + 1]
         tokenIdf(token) == IF token \in DOMAIN index.idf THEN index.idf[token]
                            ELSE index.defaultIdf
         refValue(token) == IF token \in DOMAIN tfIdf THEN tfIdf[token] ELSE 0
         dot == SumOver([token \in DOMAIN termFreqs |->
                           Mul(Mul(termFreqs[token], tokenIdf(token)), refValue(token))],
                        DOMAIN termFreqs)
         queryNorm == SumOver([token \in DOMAIN termFreqs |->
                                 Mul(Mul(Mul(termFreqs[token], termFreqs[token]),
                                         tokenIdf(token)), tokenIdf(token))],
                              DOMAIN termFreqs)
     IN [id |-> IF DOMAIN termFreqs = {} THEN 0 ELSE id,
         score |-> Mul(dot, InvNorm(i * queryNorm, index.norms[id + 1]))]]

\* The scored candidates of Rank, in candidate order, before the sort.
Scored(index, wfa, tokens, docIds) ==
  [i \in 1..Len(docIds) |-> RankEntry(index, wfa, getTermFrequency(tokens), docIds[i])]

\* less(i, j) of the sort.Slice call: descending order of score.
Less(a, b) == a.score > b.score

\* What sort.Slice may leave: any order of the entries in which no entry is
\* less than the one before it (the sort is not stable).
Sorted(result) ==
  LET n == Len(result)
      perms == {p \in [1..n -> 1..n] : \A i, j \in 1..n : i # j => p[i] # p[j]}
  IN {q \in {[i \in 1..n |-> result[p[i]]] : p \in perms} :
        \A k \in 1..(n - 1) : ~Less(q[k + 1], q[k])}

\* trieSearchIndex.Rank(tokens, docIds): the orders it may return; a candidate
\* id past the document entries is an index out of range.
RankPanics(index, docIds) == \E i \in 1..Len(docIds) : docIds[i] + 1 > Len(index.norms)
Rank(index, wfa, tokens, docIds) == Sorted(Scored(index, wfa, tokens, docIds))

\* ------------------------------------------------------------------ state
VARIABLES
  trie,    \* the PatriciaTrie under test: [nodes, strings]
  heap,    \* the posting sets allocated so far, by handle
  log,     \* the calls made so far that changed the trie or the builder
  last,    \* the last call and what it returned
  wordFreqArray,  \* the builder's term frequency maps, shared with the index
  index,   \* the trieSearchIndex last built (it shares trie and heap)
  app,        \* the App: [indexBuilder, index, corpus]
  indexLock,  \* app.indexLock: [w, held, readers]
  pc,         \* where each request handler stands
  local,      \* the local variables of each request handler
  owner       \* the upload that made app.index and app.corpus (0: none), and
              \* whether an upload has returned on a read error

trieVars == <<trie, heap, log, last>>
indexVars == <<wordFreqArray, index>>
appVars == <<app, indexLock, pc, local, owner>>
vars == <<trieVars, indexVars, appVars>>

\* What a call returned, with the posting set read out of the heap.
View(res, h) ==
  [kind |-> res.kind,
   set |-> IF res.kind = "ok" /\ res.set # 0 THEN h[res.set] ELSE {},
   tokens |-> res.tokens]

NoCall == [op |-> "none", key |-> <<>>, dist |-> 0, res |-> View(NilResult, <<>>)]
Call(op, key, dist, res, h) == [op |-> op, key |-> key, dist |-> dist, res |-> View(res, h)]

\* The posting sets the trie owns: a call's temporaries are dropped when it returns.
Owned(h, n) == SubSeq(h, 1, n)

\* ------------------------------------------------------ the App's state
MaxUploads == 2
MaxSearches == 2
MaxLines == 2

\* The requests: one handler goroutine each.
Uploaders == 1..MaxUploads
Searchers == (MaxUploads + 1)..(MaxUploads + MaxSearches)

\* The lines an uploaded file may hold; a file has at most MaxLines of them.
FileLines == {<<"a">>, <<"b">>}
\* The search requests: query, type, operator and distance parameters.
Requests ==
  {[query |-> <<"a">>, searchType |-> "ExactSearch", operator |-> "Or", dist |-> 0],
   [query |-> <<"b">>, searchType |-> "PrefixSearch", operator |-> "And", dist |-> 0],
   [query |-> <<"a", " ", "b">>, searchType |-> "FuzzySearch", operator |-> "Or",
    dist |-> MaxDist]}

\* An IndexBuilder and a SearchIndex; nil marks the nil interface value.
NilBuilder ==
  [nil |-> TRUE, trie |-> NewPatriciaTrie, heap |-> <<>>, wordFreqArray |-> <<>>]
NewTrieIndex ==
  [nil |-> FALSE, trie |-> NewPatriciaTrie, heap |-> <<>>, wordFreqArray |-> <<>>]
NilIndex ==
  [nil |-> TRUE, trie |-> NewPatriciaTrie, heap |-> <<>>, wordFreqArray |-> <<>>,
   index |-> NoIndex]

\* app := &App{corpus: make([]string, 0)}
NewApp == [indexBuilder |-> NilBuilder, index |-> NilIndex, corpus |-> <<>>]
\* The zero sync.RWMutex: no writer has called Lock (w = 0), none holds the
\* lock, no reader holds it.
NewRWMutex == [w |-> 0, held |-> FALSE, readers |-> {}]

NoResponse == [status |-> "", at |-> "", body |-> <<>>]
Response(status, at, body) == [status |-> status, at |-> at, body |-> body]
NoUpload == [i |-> 0]
NoSearch ==
  [query |-> <<>>, searchType |-> "ExactSearch", operator |-> "Or", dist |-> 0,
   tokens |-> <<>>, docIds |-> <<>>, ranked |-> <<>>, seen |-> <<>>,
   response |-> NoResponse]

AppIdle ==
  /\ app = NewApp
  /\ indexLock = NewRWMutex
  /\ pc = [p \in Uploaders \cup Searchers |-> "start"]
  /\ local = [p \in Uploaders \cup Searchers |->
                IF p \in Uploaders THEN NoUpload ELSE NoSearch]
  /\ owner = [index |-> 0, corpus |-> 0, failed |-> FALSE]

InitTrie ==
  /\ trie = NewPatriciaTrie
  /\ heap = <<>>
  /\ log = <<>>
  /\ last = NoCall
  /\ wordFreqArray = <<>>
  /\ index = NoIndex
  /\ AppIdle

\* A run of the trie is a sequence of Insert calls and then one lookup.
Inserting == last.op \in {"none", "Insert"}

\* trie.Insert(token, roaring.BitmapOf(id)) with a fresh id per call.
TInsert(token) ==
  /\ Inserting
  /\ Len(log) < MaxInserts
  /\ LET id == Len(log) + 1
         set == Len(heap) + 1
         r == Insert(trie, Append(heap, {id}), token, set)
         stored == \E n \in 1..Len(r.trie.nodes) : r.trie.nodes[n].value = set
     IN /\ trie' = r.trie
        /\ heap' = IF stored THEN r.heap ELSE Owned(r.heap, Len(heap))
        /\ log' = Append(log, <<token, id>>)
        /\ last' = Call("Insert", token, 0, NilResult, r.heap)

\* trie.Search(key)
TSearch(key) ==
  /\ Inserting
  /\ last' = Call("Search", key, 0, Search(trie, key), heap)
  /\ UNCHANGED <<trie, heap, log>>

\* trie.StartsWith(key)
TStartsWith(key) ==
  /\ Inserting
  /\ LET r == StartsWith(trie, key, heap)
     IN /\ last' = Call("StartsWith", key, 0, r.res, r.heap)
        /\ heap' = Owned(r.heap, Len(heap))
  /\ UNCHANGED <<trie, log>>

\* trie.FuzzySearch(key, limit)
TFuzzySearch(key, limit) ==
  /\ Inserting
  /\ LET r == FuzzySearch(trie, key, limit, heap)
     IN /\ last' = Call("FuzzySearch", key, limit, r.res, r.heap)
        /\ heap' = Owned(r.heap, Len(heap))
  /\ UNCHANGED <<trie, log>>

NextTrie ==
  \/ \E token \in Keys : TInsert(token) /\ UNCHANGED <<indexVars, appVars>>
  \/ \E key \in Keys : TSearch(key) /\ UNCHANGED <<indexVars, appVars>>
  \/ \E key \in Keys : TStartsWith(key) /\ UNCHANGED <<indexVars, appVars>>
  \/ \E key \in Keys, limit \in 0..MaxDist : TFuzzySearch(key, limit) /\ UNCHANGED <<indexVars, appVars>>

SpecTrie == InitTrie /\ [][NextTrie]_vars

\* ------------------------------------------- the builder and the index
\* The lines uploaded and the queries asked: letters, separators, upper case.
Lines == {<<>>, <<"a">>, <<"a", "b">>, <<"A", ",", "a", " ", "b">>}
Queries == {<<"a">>, <<"a", " ", "b">>, <<"B", ",", "a", "b">>}

\* The lines added so far, in id order, and the number of Build calls.
Added == SelectSeq(log, LAMBDA c : c[1] = "Add")
Builds == Len(SelectSeq(log, LAMBDA c : c[1] = "Build"))
Building == last.op \in {"none", "Add", "Build"}

InitIndex ==
  /\ trie = NewPatriciaTrie
  /\ heap = <<>>
  /\ log = <<>>
  /\ last = NoCall
  /\ wordFreqArray = <<>>
  /\ index = NoIndex
  /\ AppIdle

\* indexBuilder.Add(tokenize(line), i) of uploadCorpus: ids count from 0.
IAdd(line) ==
  /\ Building
  /\ Len(wordFreqArray) < MaxDocs
  /\ LET r == BuilderAdd(trie, heap, wordFreqArray, tokenize(line), Len(wordFreqArray))
     IN /\ trie' = r.trie
        /\ heap' = r.heap
        /\ wordFreqArray' = r.wordFreqArray
  /\ log' = Append(log, <<"Add", line>>)
  /\ last' = [op |-> "Add", key |-> line]
  /\ UNCHANGED index

\* indexBuilder.Build()
IBuild ==
  /\ Building
  /\ Builds < MaxBuilds
  /\ LET r == Build(trie, heap, wordFreqArray)
     IN /\ wordFreqArray' = r.wordFreqArray
        /\ index' = IF r.panic THEN index ELSE r.index
        /\ last' = [op |-> "Build", panic |-> r.panic]
  /\ log' = Append(log, <<"Build", <<>>>>)
  /\ UNCHANGED <<trie, heap>>

\* index.Search(query, searchType, operator, dist) of the search handler, with
\* the candidate ids searchResult.DocIds() it hands to Rank.
ISearch(query, searchType, operator, dist) ==
  /\ Building
  /\ index.built
  /\ LET r == IndexSearch(trie, heap, query, searchType, operator, dist)
     IN /\ last' = [op |-> "Search", key |-> query, searchType |-> searchType,
                    operator |-> operator, dist |-> dist,
                    res |-> View(r.res, r.heap),
                    docIds |-> DocIds(r.res, r.heap)]
        /\ heap' = Owned(r.heap, Len(heap))
  /\ UNCHANGED <<trie, log, wordFreqArray, index>>

\* index.Rank(searchResult.tokens, searchResult.DocIds())
IRank ==
  /\ last.op = "Search"
  /\ last.res.kind = "ok"
  /\ IF RankPanics(index, last.docIds)
     THEN last' = [op |-> "Rank", panic |-> TRUE, tokens |-> last.res.tokens,
                   docIds |-> last.docIds, ranked |-> <<>>]
     ELSE \E q \in Rank(index, wordFreqArray, last.res.tokens, last.docIds) :
            last' = [op |-> "Rank", panic |-> FALSE, tokens |-> last.res.tokens,
                     docIds |-> last.docIds, ranked |-> q]
  /\ UNCHANGED <<trie, heap, log, wordFreqArray, index>>

NextIndex ==
  \/ \E line \in Lines : IAdd(line) /\ UNCHANGED appVars
  \/ IBuild /\ UNCHANGED appVars
  \/ \E query \in Queries, searchType \in SearchTypes, operator \in Operators,
        dist \in 0..MaxDist :
          ISearch(query, searchType, operator, dist) /\ UNCHANGED appVars
  \/ IRank /\ UNCHANGED appVars

SpecIndex == InitIndex /\ [][NextIndex]_vars

\* ------------------------------------------------ the distance kernel
InitLev ==
  /\ trie = NewPatriciaTrie
  /\ heap = <<>>
  /\ log = <<>>
  /\ last = NoCall
  /\ wordFreqArray = <<>>
  /\ index = NoIndex
  /\ AppIdle

\* res = LevenshteinDistance(input.a, input.b) of TestLevenshtein
LevCall(a, b) ==
  /\ last' = [op |-> "Levenshtein", a |-> a, b |-> b, d |-> LevenshteinDistance(a, b)]
  /\ UNCHANGED <<trie, heap, log>>

NextLev == \E a \in Keys, b \in Keys : LevCall(a, b) /\ UNCHANGED <<indexVars, appVars>>

SpecLev == InitLev /\ [][NextLev]_vars

\* ------------------------------------------------- the request handlers
InitApp ==
  /\ trie = NewPatriciaTrie
  /\ heap = <<>>
  /\ log = <<>>
  /\ last = NoCall
  /\ wordFreqArray = <<>>
  /\ index = NoIndex
  /\ AppIdle

Goto(p, label) == pc' = [pc EXCEPT ![p] = label]

\* uploadCorpus returns before it takes the lock: the method is not POST, the
\* form does not parse, or it has no file "corpus".
UploadReject(u) ==
  /\ pc[u] = "start"
  /\ Goto(u, "done")
  /\ UNCHANGED <<app, indexLock, local, owner>>

\* uploadCorpus has parsed the form and opened its file "corpus".
UploadAccept(u) ==
  /\ pc[u] = "start"
  /\ Goto(u, "Lock")
  /\ UNCHANGED <<app, indexLock, local, owner>>

\* a.indexLock.Lock(), first half: the writer announces itself, which keeps
\* new readers out.
UploadLock(u) ==
  /\ pc[u] = "Lock"
  /\ indexLock.w = 0
  /\ indexLock' = [indexLock EXCEPT !.w = u]
  /\ Goto(u, "LockWait")
  /\ UNCHANGED <<app, local, owner>>

\* a.indexLock.Lock(), second half: the writer has the lock once the readers
\* that held it have left.
UploadLockWait(u) ==
  /\ pc[u] = "LockWait"
  /\ indexLock.readers = {}
  /\ indexLock' = [indexLock EXCEPT !.held = TRUE]
  /\ Goto(u, "reset")
  /\ UNCHANGED <<app, local, owner>>

\* a.indexBuilder = NewTrieIndex(); a.corpus = make([]string, 0)
UploadReset(u) ==
  /\ pc[u] = "reset"
  /\ app' = [app EXCEPT !.indexBuilder = NewTrieIndex, !.corpus = <<>>]
  /\ owner' = [owner EXCEPT !.corpus = u]
  /\ Goto(u, "scan")
  /\ UNCHANGED <<indexLock, local>>

\* One round of the scan loop: scanner.Scan() delivers a line, its tokens are
\* added under id i and the line is appended to a.corpus.
UploadScanLine(u, line) ==
  /\ pc[u] = "scan"
  /\ local[u].i < MaxLines
  /\ LET b == app.indexBuilder
         r == BuilderAdd(b.trie, b.heap, b.wordFreqArray, tokenize(line), local[u].i)
     IN app' = [app EXCEPT
                  !.indexBuilder = [nil |-> FALSE, trie |-> r.trie, heap |-> r.heap,
                                    wordFreqArray |-> r.wordFreqArray],
                  !.corpus = Append(@, line)]
  /\ local' = [local EXCEPT ![u].i = @ + 1]
  /\ UNCHANGED <<indexLock, pc, owner>>

\* The end of the scan as it would be if Unlock were not deferred: the return
\* on a read error leaves the handler with the write lock still held.
UploadScanEndNoUnlock(u, err) ==
  /\ pc[u] = "scan"
  /\ IF err
     THEN /\ owner' = [owner EXCEPT !.failed = TRUE]
          /\ Goto(u, "done")
     ELSE /\ UNCHANGED owner
          /\ Goto(u, "Build")
  /\ UNCHANGED <<app, indexLock, local>>

\* scanner.Scan() returns false, at the end of the file or on a read error;
\* scanner.Err() is checked and a read error returns.
UploadScanEnd(u, err) ==
  /\ pc[u] = "scan"
  /\ IF err
     THEN /\ owner' = [owner EXCEPT !.failed = TRUE]
          /\ Goto(u, "Unlock")
     ELSE /\ UNCHANGED owner
          /\ Goto(u, "Build")
  /\ UNCHANGED <<app, indexLock, local>>

\* a.index = a.indexBuilder.Build(); a panic in Build leaves a.index as it was.
UploadBuild(u) ==
  /\ pc[u] = "Build"
  /\ LET b == app.indexBuilder
         r == Build(b.trie, b.heap, b.wordFreqArray)
     IN IF r.panic
        THEN /\ app' = [app EXCEPT !.indexBuilder.wordFreqArray = r.wordFreqArray]
             /\ UNCHANGED owner
        ELSE /\ app' = [app EXCEPT
                          !.indexBuilder.wordFreqArray = r.wordFreqArray,
                          !.index = [nil |-> FALSE, trie |-> b.trie, heap |-> b.heap,
                                     wordFreqArray |-> r.wordFreqArray,
                                     index |-> r.index]]
             /\ owner' = [owner EXCEPT !.index = u]
  /\ Goto(u, "Unlock")
  /\ UNCHANGED <<indexLock, local>>

\* defer a.indexLock.Unlock(); the handler returns and its locals are gone.
UploadUnlock(u) ==
  /\ pc[u] = "Unlock"
  /\ indexLock' = [indexLock EXCEPT !.w = 0, !.held = FALSE]
  /\ local' = [local EXCEPT ![u] = NoUpload]
  /\ Goto(u, "done")
  /\ UNCHANGED <<app, owner>>

Respond(s, response, label) ==
  /\ local' = [local EXCEPT ![s].response = response]
  /\ Goto(s, label)

\* search returns at once: the method is not GET.
SearchReject(s) ==
  /\ pc[s] = "start"
  /\ Goto(s, "done")
  /\ UNCHANGED <<app, indexLock, local, owner>>

\* What the read of a.index outside the lock may find: the read races with
\* the assignment in uploadCorpus, which turns a nil a.index into a non-nil one.
IndexSeenNil ==
  IF app.index.nil /\ \E u \in Uploaders : pc[u] = "Build" THEN BOOLEAN
  ELSE {app.index.nil}

\* if a.index == nil { ... return }, then the query parameters are read; a
\* distance that is not a number returns.
SearchCheck(s, request, badDistance) ==
  /\ pc[s] = "start"
  /\ \E seenNil \in IndexSeenNil :
       IF seenNil \/ badDistance
       THEN /\ Goto(s, "done")
            /\ UNCHANGED local
       ELSE /\ local' = [local EXCEPT ![s] =
                           [NoSearch EXCEPT !.query = request.query,
                                            !.searchType = request.searchType,
                                            !.operator = request.operator,
                                            !.dist = request.dist]]
            /\ Goto(s, "RLock")
  /\ UNCHANGED <<app, indexLock, owner>>

\* RLock as it would be if it did not wait for a writer.
CanRLockAnytime(l) == TRUE

\* RLock returns when no writer has called Lock.
CanRLock(l) == l.w = 0

\* a.indexLock.RLock()
SearchRLock(s) ==
  /\ pc[s] = "RLock"
  /\ CanRLock(indexLock)
  /\ indexLock' = [indexLock EXCEPT !.readers = @ \cup {s}]
  /\ Goto(s, "Search")
  /\ UNCHANGED <<app, local, owner>>

\* The pair (index, corpus) a handler step works on.
Snapshot == <<owner, app.index, app.corpus>>

\* searchResult := a.index.Search(query, searchType, operator, dist); a panic
\* ends the handler through its deferred RUnlock.
SearchSearch(s) ==
  /\ pc[s] = "Search"
  /\ IF app.index.nil
     THEN /\ Respond(s, Response("panic", "Search", <<>>), "RUnlock")
          /\ UNCHANGED app
     ELSE LET r == IndexSearch(app.index.trie, app.index.heap, local[s].query,
                               local[s].searchType, local[s].operator, local[s].dist)
          IN /\ app' = [app EXCEPT !.index.heap = Owned(r.heap, Len(app.index.heap))]
             /\ IF r.res.kind = "panic"
                THEN Respond(s, Response("panic", "Search", <<>>), "RUnlock")
                ELSE /\ local' = [local EXCEPT
                                    ![s].tokens = r.res.tokens,
                                    ![s].docIds = DocIds(r.res, r.heap),
                                    ![s].seen = Snapshot]
                     /\ Goto(s, "Rank")
  /\ UNCHANGED <<indexLock, owner>>

\* matching_ids := a.index.Rank(searchResult.tokens, searchResult.DocIds())
SearchRank(s) ==
  /\ pc[s] = "Rank"
  /\ IF app.index.nil \/ RankPanics(app.index.index, local[s].docIds)
     THEN Respond(s, Response("panic", "Rank", <<>>), "RUnlock")
     ELSE \E q \in Rank(app.index.index, app.index.wordFreqArray, local[s].tokens,
                        local[s].docIds) :
            /\ local' = [local EXCEPT ![s].ranked = q]
            /\ Goto(s, "Encode")
  /\ UNCHANGED <<app, indexLock, owner>>

\* The response loop: Text: a.corpus[res.id] for each ranked entry, an index
\* out of range if the corpus has no such line.
SearchEncode(s) ==
  /\ pc[s] = "Encode"
  /\ LET ranked == local[s].ranked
     IN IF \E i \in 1..Len(ranked) : ranked[i].id + 1 > Len(app.corpus)
        THEN Respond(s, Response("panic", "corpus", <<>>), "RUnlock")
        ELSE Respond(s, Response("ok", "",
                                 [i \in 1..Len(ranked) |->
                                    [Id |-> ranked[i].id, Score |-> ranked[i].score,
                                     Text |-> app.corpus[ranked[i].id + 1]]]),
                     "RUnlock")
  /\ UNCHANGED <<app, indexLock, owner>>

\* defer a.indexLock.RUnlock(); the handler returns and its locals are gone.
SearchRUnlock(s) ==
  /\ pc[s] = "RUnlock"
  /\ indexLock' = [indexLock EXCEPT !.readers = @ \ {s}]
  /\ local' = [local EXCEPT ![s] = NoSearch]
  /\ Goto(s, "done")
  /\ UNCHANGED <<app, owner>>

NextApp ==
  \/ \E u \in Uploaders : UploadReject(u) /\ UNCHANGED <<trieVars, indexVars>>
  \/ \E u \in Uploaders : UploadAccept(u) /\ UNCHANGED <<trieVars, indexVars>>
  \/ \E u \in Uploaders : UploadLock(u) /\ UNCHANGED <<trieVars, indexVars>>
  \/ \E u \in Uploaders : UploadLockWait(u) /\ UNCHANGED <<trieVars, indexVars>>
  \/ \E u \in Uploaders : UploadReset(u) /\ UNCHANGED <<trieVars, indexVars>>
  \/ \E u \in Uploaders, line \in FileLines :
       UploadScanLine(u, line) /\ UNCHANGED <<trieVars, indexVars>>
  \/ \E u \in Uploaders, err \in BOOLEAN :
       UploadScanEnd(u, err) /\ UNCHANGED <<trieVars, indexVars>>
  \/ \E u \in Uploaders : UploadBuild(u) /\ UNCHANGED <<trieVars, indexVars>>
  \/ \E u \in Uploaders : UploadUnlock(u) /\ UNCHANGED <<trieVars, indexVars>>
  \/ \E s \in Searchers : SearchReject(s) /\ UNCHANGED <<trieVars, indexVars>>
  \/ \E s \in Searchers, request \in Requests, badDistance \in BOOLEAN :
       SearchCheck(s, request, badDistance) /\ UNCHANGED <<trieVars, indexVars>>
  \/ \E s \in Searchers : SearchRLock(s) /\ UNCHANGED <<trieVars, indexVars>>
  \/ \E s \in Searchers : SearchSearch(s) /\ UNCHANGED <<trieVars, indexVars>>
  \/ \E s \in Searchers : SearchRank(s) /\ UNCHANGED <<trieVars, indexVars>>
  \/ \E s \in Searchers : SearchEncode(s) /\ UNCHANGED <<trieVars, indexVars>>
  \/ \E s \in Searchers : SearchRUnlock(s) /\ UNCHANGED <<trieVars, indexVars>>

SpecApp == InitApp /\ [][NextApp]_vars

\* ------------------------------------- the handlers under fair scheduling
\* The requests of a run in which only the locking is looked at: files of
\* lines "a", exact searches.
LockLines == {line \in FileLines : line = <<"a">>}
LockRequests == {request \in Requests : request.searchType = "ExactSearch"}

\* A step of the goroutine serving upload u, and of the one serving search s.
UploadStep(u) ==
  \/ UploadReject(u) /\ UNCHANGED <<trieVars, indexVars>>
  \/ UploadAccept(u) /\ UNCHANGED <<trieVars, indexVars>>
  \/ UploadLock(u) /\ UNCHANGED <<trieVars, indexVars>>
  \/ UploadLockWait(u) /\ UNCHANGED <<trieVars, indexVars>>
  \/ UploadReset(u) /\ UNCHANGED <<trieVars, indexVars>>
  \/ \E line \in LockLines : UploadScanLine(u, line) /\ UNCHANGED <<trieVars, indexVars>>
  \/ \E err \in BOOLEAN : UploadScanEnd(u, err) /\ UNCHANGED <<trieVars, indexVars>>
  \/ UploadBuild(u) /\ UNCHANGED <<trieVars, indexVars>>
  \/ UploadUnlock(u) /\ UNCHANGED <<trieVars, indexVars>>

SearchStep(s) ==
  \/ SearchReject(s) /\ UNCHANGED <<trieVars, indexVars>>
  \/ \E request \in LockRequests, badDistance \in BOOLEAN :
       SearchCheck(s, request, badDistance) /\ UNCHANGED <<trieVars, indexVars>>
  \/ SearchRLock(s) /\ UNCHANGED <<trieVars, indexVars>>
  \/ SearchSearch(s) /\ UNCHANGED <<trieVars, indexVars>>
  \/ SearchRank(s) /\ UNCHANGED <<trieVars, indexVars>>
  \/ SearchEncode(s) /\ UNCHANGED <<trieVars, indexVars>>
  \/ SearchRUnlock(s) /\ UNCHANGED <<trieVars, indexVars>>

NextAppFair ==
  \/ \E u \in Uploaders : UploadStep(u)
  \/ \E s \in Searchers : SearchStep(s)

\* When the handlers can take a step: always, but for Lock, which waits for
\* the writer before it and for the readers to leave, and for RLock, which
\* waits for the writer.
UploadReady(u) ==
  \/ pc[u] \in {"start", "reset", "scan", "Build", "Unlock"}
  \/ pc[u] = "Lock" /\ indexLock.w = 0
  \/ pc[u] = "LockWait" /\ indexLock.readers = {}

SearchReady(s) ==
  \/ pc[s] \in {"start", "Search", "Rank", "Encode", "RUnlock"}
  \/ pc[s] = "RLock" /\ CanRLock(indexLock)

\* The Go scheduler runs every goroutine that can run: a handler that can take
\* its next step, a lock that is free included, takes it in the end. This is
\* WF_vars(UploadStep(u)) and WF_vars(SearchStep(s)) written out, with the
\* handler's readiness for ENABLED.
FairApp ==
  /\ \A u \in Uploaders : []<>(~UploadReady(u)) \/ []<><<UploadStep(u)>>_vars
  /\ \A s \in Searchers : []<>(~SearchReady(s)) \/ []<><<SearchStep(s)>>_vars

SpecAppFair == InitApp /\ [][NextAppFair]_vars /\ FairApp

\* ------------------------------------------------ the trie's contract
\* The tokens inserted so far and the ids inserted under a token.
StoredTokens == {log[i][1] : i \in 1..Len(log)}
IdsOf(token) == {log[i][2] : i \in {j \in 1..Len(log) : log[j][1] = token}}
IdsOfAll(tokens) == UNION {IdsOf(token) : token \in tokens}
WithPrefix(p) == {token \in StoredTokens : HasPrefix(token, p)}
Within(key, d) == {token \in StoredTokens : LevenshteinDistance(token, key) <= d}

SearchView(key) == View(Search(trie, key), heap)
StartsWithView(key) ==
  LET r == StartsWith(trie, key, heap) IN View(r.res, r.heap)
FuzzyView(key, d) ==
  LET r == FuzzySearch(trie, key, d, heap) IN View(r.res, r.heap)

\* C1: after any sequence of Insert(token, {id}) calls on an empty trie, Search
\* of every token inserted at least once is non-null and its posting set is
\* exactly the union of the ids inserted under that token.
C1_InsertSearchConsistent ==
  /\ Inserting =>
       \A token \in StoredTokens :
         /\ SearchView(token).kind = "ok"
         /\ SearchView(token).set = IdsOf(token)
  /\ (last.op = "Search" /\ last.key \in StoredTokens) =>
       (last.res.kind = "ok" /\ last.res.set = IdsOf(last.key))

\* C1 witness: a Search has returned both ids of a token inserted twice.
C1_Witness ==
  /\ last.op = "Search"
  /\ last.res.kind = "ok"
  /\ Cardinality(last.res.set) = 2
  /\ last.res.set = IdsOf(last.key)

\* What C2 asks of the result v of StartsWith(p).
PrefixExact(p, v) ==
  /\ v.kind = "ok"
  /\ v.set = IdsOfAll(WithPrefix(p))
  /\ Range(v.tokens) = WithPrefix(p)
  /\ Len(v.tokens) = Cardinality(WithPrefix(p))

\* C2: for a non-empty prefix p of some stored token, StartsWith(p) is non-null,
\* its posting set is the union of the posting sets of the stored tokens that
\* begin with p, and its token list holds exactly those tokens, each once.
C2_PrefixInclusion ==
  /\ Inserting =>
       \A p \in Tokens : WithPrefix(p) # {} => PrefixExact(p, StartsWithView(p))
  /\ (last.op = "StartsWith" /\ last.key # <<>> /\ WithPrefix(last.key) # {}) =>
       PrefixExact(last.key, last.res)

\* C2 witness: StartsWith(p) has returned two tokens, p itself among them, for a
\* prefix that ends inside the trie.
C2_Witness ==
  /\ last.op = "StartsWith"
  /\ last.res.kind = "ok"
  /\ Len(last.res.tokens) = 2
  /\ last.key \in Range(last.res.tokens)
  /\ Cardinality(last.res.set) = 2

\* C3: FuzzySearch(key, d) returns every stored token within Levenshtein
\* distance d of key, and that token's posting set is part of the result.
C3_FuzzyComplete ==
  (last.op = "FuzzySearch" /\ last.res.kind = "ok") =>
    \A token \in Within(last.key, last.dist) :
      token \in Range(last.res.tokens) /\ IdsOf(token) \subseteq last.res.set

\* What C4 asks of the result v of FuzzySearch(key, d).
FuzzySound(key, d, v) ==
  /\ v.kind # "nil"
  /\ v.kind = "ok" =>
       /\ Range(v.tokens) \subseteq Within(key, d)
       /\ Len(v.tokens) = Cardinality(Range(v.tokens))
       /\ v.set = IdsOfAll(Range(v.tokens))

\* C4: every token FuzzySearch(key, d) returns is a stored token within
\* distance d of key, no token is returned twice, and the posting set returned
\* is exactly the union of the posting sets of the tokens returned.
C4_FuzzySound ==
  /\ Inserting =>
       \A key \in Keys, d \in 0..MaxDist : FuzzySound(key, d, FuzzyView(key, d))
  /\ last.op = "FuzzySearch" => FuzzySound(last.key, last.dist, last.res)

\* C4 witness: a FuzzySearch at distance 1 has returned a token that is not the
\* key, and left out a stored token that is further away.
C4_Witness ==
  /\ last.op = "FuzzySearch"
  /\ last.res.kind = "ok"
  /\ last.dist = 1
  /\ Len(last.res.tokens) = 1
  /\ last.key \notin Range(last.res.tokens)
  /\ Cardinality(StoredTokens) = 2

\* ------------------------------------------- the evaluator's contract
\* The tokens of the query last searched and of document id.
QueryTokens == tokenize(last.key)
DocTokens(id) == tokenize(Added[id + 1][2])
\* The lookup of one query token under the mode of the last search.
LookupView(token) ==
  LET l == Lookup(trie, heap, last.searchType, last.dist, token)
  IN View(l.res, l.heap)

RECURSIVE ConcatTokens(_, _)
ConcatTokens(tokens, i) ==
  IF i > Len(tokens) THEN <<>>
  ELSE LookupView(tokens[i]).tokens \o ConcatTokens(tokens, i + 1)

\* C5: a search with operator And returns only documents that contain all the
\* query words; a query token whose lookup is null counts as the empty set, so
\* the combined posting set is then empty.
C5_AndAllWords ==
  (last.op = "Search" /\ last.operator = "And" /\ last.res.kind = "ok") =>
    /\ (\E i \in 1..Len(QueryTokens) : LookupView(QueryTokens[i]).kind = "nil") =>
         last.res.set = {}
    /\ last.searchType = "ExactSearch" =>
         \A id \in last.res.set : Range(QueryTokens) \subseteq Range(DocTokens(id))

\* C6: a search with operator Or returns the union of the lookups of the query
\* tokens whose lookup is not null, and the matched tokens of the lookups
\* concatenated in query order.
C6_OrUnion ==
  (last.op = "Search" /\ last.operator = "Or" /\ last.res.kind = "ok") =>
    /\ last.res.set =
         UNION {LookupView(QueryTokens[i]).set :
                  i \in {j \in 1..Len(QueryTokens) :
                           LookupView(QueryTokens[j]).kind = "ok"}}
    /\ last.res.tokens = ConcatTokens(QueryTokens, 1)

\* C6 witness: an exact Or search of two words has united two posting sets
\* that differ.
C6_Witness ==
  /\ last.op = "Search"
  /\ last.operator = "Or"
  /\ last.searchType = "ExactSearch"
  /\ last.res.kind = "ok"
  /\ last.res.tokens = <<<<"a">>, <<"b">>>>
  /\ LookupView(<<"a">>).set # LookupView(<<"b">>).set
  /\ last.res.set = {0, 1}

\* Rank returned one entry per candidate id, each with the score of that
\* document, in non-increasing order of score.
RankedByScore ==
  /\ Len(last.ranked) = Len(last.docIds)
  /\ {last.ranked[i].id : i \in 1..Len(last.ranked)} = Range(last.docIds)
  /\ \A i \in 1..Len(last.ranked) :
       last.ranked[i] \in Range(Scored(index, wordFreqArray, last.tokens, last.docIds))
  /\ \A i \in 1..(Len(last.ranked) - 1) :
       last.ranked[i].score >= last.ranked[i + 1].score

\* C10: Rank returns one entry per candidate id, scores
\* non-increasing, and entries with equal score in ascending id order.
C10_RankOrderTiesById ==
  (last.op = "Rank" /\ ~last.panic) =>
    /\ RankedByScore
    /\ \A i \in 1..(Len(last.ranked) - 1) :
         last.ranked[i].score = last.ranked[i + 1].score =>
           last.ranked[i].id < last.ranked[i + 1].id

\* ------------------------------------------- the handlers' contract
\* The search handlers between RLock and RUnlock, and those past Search.
Reading == {s \in Searchers : pc[s] \in {"Search", "Rank", "Encode", "RUnlock"}}
Searched == {s \in Searchers : pc[s] \in {"Rank", "Encode"}}

\* C7: a search runs Search, Rank and the lookup of the texts on one version
\* of the pair (index, corpus), the index and the corpus of the same upload
\* when every upload so far has published, and runs none of them while the
\* writer holds the lock.
C7_SnapshotConsistent ==
  /\ \A s \in Reading : ~indexLock.held
  /\ \A s \in Searched :
       /\ local[s].seen = Snapshot
       /\ ~owner.failed => owner.index = owner.corpus

\* C7 witness: a search stands between Rank and the lookup of the texts on a
\* published index while an upload waits in Lock for it to leave.
C7_Witness ==
  \E s \in Searchers, u \in Uploaders :
    /\ pc[s] = "Encode"
    /\ pc[u] = "LockWait"
    /\ owner.index # 0
    /\ Len(local[s].ranked) > 0

\* C8: once no upload is inside uploadCorpus's locked part, whether it has
\* returned with success or on a read error, the served index and the corpus
\* are of the same upload: every document id of the index has its line in the
\* corpus, the line indexed under that id, and no search fails to find the
\* text of an id it returns.
C8_RebuildAtomic ==
  /\ (~indexLock.held /\ ~app.index.nil) =>
       /\ Len(app.corpus) = Len(app.index.wordFreqArray)
       /\ \A i \in 1..Len(app.corpus) :
            Range(tokenize(app.corpus[i])) = DOMAIN app.index.wordFreqArray[i]
  /\ \A s \in Searchers : local[s].response.at # "corpus"

\* C9: while an upload reads its file and fills the builder, a search that has
\* come to RLock can take it, as the writer's exclusive part is the swap alone.
C9_OldIndexServes ==
  \A u \in Uploaders, s \in Searchers :
    (pc[u] \in {"reset", "scan"} /\ pc[s] = "RLock") => CanRLock(indexLock)

\* ------------------------------------------- the builder's contract
\* C11: a second Build straight after a Build, with no Add in between, yields
\* the same IDF table, the same tfIdf values of every document and the same
\* norms as the first.
C11_BuildIdempotent ==
  [][(last.op = "Build" /\ ~last.panic /\ last'.op = "Build") =>
       (index' = index /\ wordFreqArray' = wordFreqArray)]_vars

\* C12: once an index is built, an Add on the builder changes nothing of what
\* the index returns: the posting set and matched token of every exact lookup,
\* the IDF table, the norms and the tfIdf values of the documents it holds.
C12_ImmutableAfterBuild ==
  [][(index.built /\ last'.op = "Add") =>
       /\ \A token \in Tokens :
            View(Search(trie', token), heap') = View(Search(trie, token), heap)
       /\ index' = index
       /\ \A i \in 1..Len(wordFreqArray) : wordFreqArray'[i] = wordFreqArray[i]]_vars

\* C13: a Search or a Rank on a built index leaves the trie, every stored
\* posting set, the IDF table, the norms and the documents' tfIdf values as
\* they were.
C13_ReadPathsPure ==
  [][last'.op \in {"Search", "Rank"} =>
       /\ trie' = trie
       /\ heap' = heap
       /\ index' = index
       /\ wordFreqArray' = wordFreqArray]_vars

\* C13 witness: an And search has intersected the posting sets of two stored
\* words into a set smaller than the first word's.
C13_Witness ==
  /\ last.op = "Search"
  /\ last.operator = "And"
  /\ last.searchType = "ExactSearch"
  /\ last.res.kind = "ok"
  /\ last.res.tokens = <<<<"a">>, <<"b">>>>
  /\ LookupView(<<"a">>).set = {0, 1}
  /\ last.res.set = {1}

\* ----------------------------------------- more of the trie's contract
\* C14: Search, StartsWith and FuzzySearch complete without a fault on every
\* trie reachable by inserts, the empty trie included, for every key, the
\* empty string included, and every distance.
C14_NoFault == last.res.kind # "panic"

\* The ids of the documents added so far that hold token.
DocsWith(token) == {i \in 0..(Len(Added) - 1) : token \in Range(DocTokens(i))}

\* C15: after Build the index has one entry per document added, and for every
\* token an exact lookup returns the ids of the documents that hold it (null
\* when none does) and the IDF table has its row, from the number of
\* documents and the size of that set.
C15_BuildReflectsAdds ==
  (last.op = "Build" /\ ~last.panic) =>
    /\ Len(index.norms) = Len(Added)
    /\ Len(wordFreqArray) = Len(Added)
    /\ \A token \in Tokens :
         LET r == View(Search(trie, token), heap)
         IN IF DocsWith(token) = {}
            THEN r.kind = "nil" /\ token \notin DOMAIN index.idf
            ELSE /\ r.kind = "ok"
                 /\ r.set = DocsWith(token)
                 /\ r.tokens = <<token>>
                 /\ token \in DOMAIN index.idf
                 /\ index.idf[token] = LogRatio(Len(Added), Cardinality(DocsWith(token)))

\* C15 witness: an index built from two documents, of which the second holds
\* one word twice and shares it with the first.
C15_Witness ==
  /\ last.op = "Build"
  /\ ~last.panic
  /\ Len(Added) = 2
  /\ Added[2][2] = <<"A", ",", "a", " ", "b">>
  /\ DocsWith(<<"a">>) = {0, 1}
  /\ View(Search(trie, <<"b">>), heap).set = {1}

\* C16: for distances d1 <= d2, the posting set of FuzzySearch(q, d1) is part
\* of the posting set of FuzzySearch(q, d2), and every token matched at d1 is
\* matched at d2.
C16_FuzzyMonotone ==
  last.op = "FuzzySearch" =>
    \A d1 \in 0..last.dist :
      LET r1 == FuzzyView(last.key, d1)
      IN r1.kind = "ok" =>
           /\ last.res.kind = "ok"
           /\ r1.set \subseteq last.res.set
           /\ Range(r1.tokens) \subseteq Range(last.res.tokens)

\* C17: FuzzySearch(q, 0) returns the posting set and the matched token of
\* Search(q) when q is stored, and null when q is not stored.
C17_FuzzyExactOrNull ==
  (last.op = "FuzzySearch" /\ last.dist = 0) =>
    IF last.key \in StoredTokens
    THEN /\ last.res.kind = "ok"
         /\ last.res.set = SearchView(last.key).set
         /\ last.res.tokens = SearchView(last.key).tokens
    ELSE last.res.kind = "nil"

\* C17 as amended: FuzzySearch(q, 0) returns the posting set and the matched
\* token of Search(q) when q is stored, and a result that is not null, with
\* no token and an empty posting set, when q is not stored.
C17_FuzzyExact ==
  (last.op = "FuzzySearch" /\ last.dist = 0) =>
    /\ last.res.kind = "ok"
    /\ IF last.key \in StoredTokens
       THEN /\ SearchView(last.key).kind = "ok"
            /\ last.res.set = SearchView(last.key).set
            /\ last.res.tokens = SearchView(last.key).tokens
       ELSE last.res.set = {} /\ last.res.tokens = <<>>

\* C17 witness: FuzzySearch(q, 0) has returned a stored q that is a proper
\* prefix of another stored token.
C17_Witness ==
  /\ last.op = "FuzzySearch"
  /\ last.dist = 0
  /\ last.res.kind = "ok"
  /\ last.res.tokens = <<last.key>>
  /\ \E token \in StoredTokens : token # last.key /\ HasPrefix(token, last.key)

\* What C18 asks of the result v of Search(k).
AbsentIsNull(k, v) ==
  /\ k \notin StoredTokens => v.kind = "nil"
  /\ v.kind # "nil" => (v.kind = "ok" /\ v.tokens = <<k>>)

\* C18: Search(k) returns null for every key k that was never inserted, be it
\* a proper prefix or a proper extension of a stored key or a key that ends
\* at a split point; a result that is not null carries k as its matched token.
C18_AbsentIsNull ==
  /\ Inserting => \A k \in Keys : AbsentIsNull(k, SearchView(k))
  /\ last.op = "Search" => AbsentIsNull(last.key, last.res)

\* C18 witness: Search has returned null for a key that ends exactly at the
\* split point of two stored tokens.
C18_Witness ==
  /\ last.op = "Search"
  /\ last.res.kind = "nil"
  /\ last.key # <<>>
  /\ \E t1, t2 \in StoredTokens :
       /\ HasPrefix(t1, last.key) /\ HasPrefix(t2, last.key)
       /\ Len(t1) > Len(last.key) /\ Len(t2) > Len(last.key)
       /\ t1[Len(last.key) + 1] # t2[Len(last.key) + 1]

\* The Levenshtein distance by its recurrence: unit-cost insert, delete and
\* substitute.
RECURSIVE EditDistance(_, _)
EditDistance(a, b) ==
  IF Len(a) = 0 THEN Len(b)
  ELSE IF Len(b) = 0 THEN Len(a)
  ELSE Min3(EditDistance(Tail(a), b) + 1,
            EditDistance(a, Tail(b)) + 1,
            EditDistance(Tail(a), Tail(b)) + (IF Head(a) = Head(b) THEN 0 ELSE 1))

\* C19: LevenshteinDistance equals the Levenshtein distance, and so it is 0
\* on equal strings, symmetric, obeys the triangle inequality and is the
\* length of the other string when one is empty.
C19_EditDistance ==
  last.op = "Levenshtein" =>
    /\ last.d = EditDistance(last.a, last.b)
    /\ last.a = last.b => last.d = 0
    /\ last.d = LevenshteinDistance(last.b, last.a)
    /\ \A c \in Keys :
         last.d <= LevenshteinDistance(last.a, c) + LevenshteinDistance(c, last.b)
    /\ last.a = <<>> => last.d = Len(last.b)

\* C19 witness: a distance that takes a substitution and an insertion, through
\* the two-row loop.
C19_Witness ==
  /\ last.op = "Levenshtein"
  /\ last.a = <<"a", "b">>
  /\ last.b = <<"b", "b", "a">>
  /\ last.d = 2

\* The first characters of the edge labels of n's children, in order; n sits
\* at offset elementsFound of its keys.
FirstChars(t, n, elementsFound) ==
  [i \in 1..Len(t.nodes[n].children) |->
     EdgeLabel(t, t.nodes[n].children[i], elementsFound)[1]]

RECURSIVE SiblingsDisjoint(_, _, _)
\* No two children of n, or of any node below n, begin with the same character.
SiblingsDisjoint(t, n, elementsFound) ==
  LET first == FirstChars(t, n, elementsFound)
  IN /\ \A i, j \in 1..Len(first) : i # j => first[i] # first[j]
     /\ \A i \in 1..Len(first) :
          LET c == t.nodes[n].children[i]
          IN /\ t.nodes[c].parent.len > 0
             /\ SiblingsDisjoint(t, c, elementsFound + t.nodes[c].parent.len)

\* C20: after any sequence of Insert calls no two children of a trie node have
\* edge labels that begin with the same character.
C20_SiblingsDisjoint == SiblingsDisjoint(trie, Root, 0)

\* C20 witness: an Insert has split an edge, so a node below the root has two
\* children.
C20_Witness ==
  \E n \in 1..Len(trie.nodes) :
    /\ n # Root
    /\ Len(trie.nodes[n].children) = 2
    /\ Len(log) = 2

\* ------------------------------------------- the trie's shape
RECURSIVE PathLabels(_, _, _, _)
\* Below node n, which sits at offset elementsFound and whose path spells
\* path: every child's side-table entry begins with the labels on the path to
\* the child, and a leaf's entry is that path, and is a stored key terminated.
PathLabels(t, n, elementsFound, path) ==
  \A i \in 1..Len(t.nodes[n].children) :
    LET c == t.nodes[n].children[i]
        e == t.nodes[c].parent
        l == elementsFound + e.len
    IN /\ e.id \in 1..Len(t.strings)
       /\ l <= Len(t.strings[e.id])
       /\ Slice(t.strings[e.id], 0, l) = path \o EdgeLabel(t, c, elementsFound)
       /\ isLeaf(t, c) =>
            /\ t.strings[e.id] = path \o EdgeLabel(t, c, elementsFound)
            /\ \E token \in StoredTokens : t.strings[e.id] = Append(token, NUL)
       /\ PathLabels(t, c, l, path \o EdgeLabel(t, c, elementsFound))

\* C21: after any sequence of Insert calls, the side-table entry of every node
\* below the root, cut at the end of the node's edge, is the concatenation of
\* the edge labels from the root to the node, and a leaf's entry is exactly
\* the inserted key, with its terminator, that its path spells.
C21_PathLabels == PathLabels(trie, Root, 0, <<>>)

\* C21 witness: two inserts have split an edge, and the leaf of the first key
\* now hangs two edges below the root and still names its whole key.
C21_Witness ==
  \E n, c \in 1..Len(trie.nodes) :
    /\ n \in Range(trie.nodes[Root].children)
    /\ c \in Range(trie.nodes[n].children)
    /\ isLeaf(trie, c)
    /\ trie.nodes[c].parent.id = 1
    /\ trie.nodes[c].parent.len < Len(trie.strings[1])
    /\ trie.nodes[c].parent.len > 1

\* C22: Insert(k, s) changes the lookup result of k only: for every other key
\* the result of Search, null or its posting set and token, is the same before
\* and after, also when the insert splits the edge that leads to that key.
C22_InsertFrame ==
  [][last'.op = "Insert" =>
       \A k \in Keys \ {last'.key} :
         View(Search(trie', k), heap') = View(Search(trie, k), heap)]_vars

\* C22 witness: the second Insert has split the edge of the first key, whose
\* posting set now sits on the lower half of the edge and is still found.
C22_Witness ==
  /\ last.op = "Insert"
  /\ Len(log) = 2
  /\ log[1][1] # log[2][1]
  /\ \E n \in 2..Len(trie.nodes) :
       /\ trie.nodes[n].value = 0
       /\ Len(trie.nodes[n].children) = 2
       /\ trie.nodes[trie.nodes[n].children[1]].parent.id = 1
  /\ SearchView(log[1][1]).kind = "ok"
  /\ SearchView(log[1][1]).set = {1}

\* ------------------------------------- more of the builder's contract
\* The tokens Traversal returns.
TraversalTokens(t) == {Traversal(t)[i].token : i \in 1..Len(Traversal(t))}

\* C23: after any sequence of Add calls, every token of every document's
\* term-frequency map is returned by Traversal, so it has its IDF row and
\* Build completes without aborting.
C23_BuildCompletes ==
  /\ \A i \in 1..Len(wordFreqArray) :
       DOMAIN wordFreqArray[i] \subseteq TraversalTokens(trie)
  /\ last.op = "Build" => ~last.panic

\* C23 witness: Build has completed on two documents, one with a repeated
\* word, whose words sit on a split edge: one word begins another.
C23_Witness ==
  /\ last.op = "Build"
  /\ ~last.panic
  /\ Len(Added) = 2
  /\ DOMAIN wordFreqArray[2] = {<<"a">>, <<"b">>}
  /\ DOMAIN index.idf = {<<"a">>, <<"b">>, <<"a", "b">>}

\* ------------------------------------------- the ranker's contract
\* The candidate lists over the documents of an index of n entries: the ids in
\* any number and any order, none twice.
CandidateLists(n) ==
  {ids \in UNION {[1..k -> 0..(n - 1)] : k \in 0..n} :
     \A i, j \in 1..Len(ids) : i # j => ids[i] # ids[j]}

\* The scores some call Rank(tokens, docIds) may give to document id.
ScoresOf(tokens, docIds, id) ==
  UNION {{q[i].score : i \in {j \in 1..Len(docIds) : q[j].id = id}} :
           q \in Rank(index, wordFreqArray, tokens, docIds)}

\* C24: for a fixed index and matched-token list, the score Rank gives to a
\* document id is the same whatever other ids are in the candidate list and
\* whatever their order: the query norm does not add up across candidates.
C24_QueryNormPerQuery ==
  (last.op = "Rank" /\ ~last.panic) =>
    \A i \in 1..Len(last.ranked) :
      \A docIds \in CandidateLists(Len(index.norms)) :
        last.ranked[i].id \in Range(docIds) =>
          ScoresOf(last.tokens, docIds, last.ranked[i].id) = {last.ranked[i].score}

\* C24 witness: Rank has scored two candidates, both above zero, so a query
\* norm carried from the first to the second would have lowered the second.
C24_Witness ==
  /\ last.op = "Rank"
  /\ ~last.panic
  /\ Len(last.ranked) = 2
  /\ \A i \in 1..2 : last.ranked[i].score > 0
  /\ last.ranked[1].id # last.ranked[2].id

\* ------------------------------------------- more of the trie's shape
\* C25: after any sequence of Insert calls a node below the root holds a
\* posting set if and only if it has no children, and the root holds none; so
\* the tokens StartsWith(p) collects from the leaves are the tokens Traversal
\* collects from the valued nodes that begin with p.
C25_LeavesAreValued ==
  /\ trie.nodes[Root].value = 0
  /\ \A n \in 2..Len(trie.nodes) : (trie.nodes[n].value # 0) <=> isLeaf(trie, n)
  /\ (last.op = "StartsWith" /\ last.res.kind = "ok") =>
       Range(last.res.tokens) =
         {token \in TraversalTokens(trie) : HasPrefix(token, last.key)}

\* C25 witness: StartsWith of the empty prefix has collected the two tokens of
\* a trie in which an insert has split an edge, leaving an inner node.
C25_Witness ==
  /\ last.op = "StartsWith"
  /\ last.key = <<>>
  /\ last.res.kind = "ok"
  /\ Len(last.res.tokens) = 2
  /\ Len(trie.nodes) = 4
  /\ Len(Traversal(trie)) = 2

\* --------------------------------- more of the handlers' contract
\* C26: a search reads a.index, the nil check included, only while it holds
\* the read lock, so no search reads it while an upload holds the write lock:
\* no search passes its nil check and none runs Search or Rank in a state in
\* which the writer holds the lock.
C26_IndexReadUnderLock ==
  [][\A s \in Searchers :
       /\ (pc[s] = "start" /\ pc'[s] = "RLock") => ~indexLock.held
       /\ (pc[s] \in {"Search", "Rank"} /\ pc'[s] # pc[s]) =>
            (s \in indexLock.readers /\ ~indexLock.held)]_vars

\* C27: every id in a posting set the served index returns is below the number
\* of documents it was built from, so neither Rank's docEntries[id] nor the
\* handler's corpus[id] indexes past the end.
C27_IdsInRange ==
  \A s \in Searchers :
    /\ pc[s] = "Rank" =>
         \A i \in 1..Len(local[s].docIds) :
           /\ local[s].docIds[i] < Len(app.index.index.norms)
           /\ local[s].docIds[i] < Len(app.corpus)
    /\ local[s].response.status # "panic"

\* C28: a handler that has returned holds no lock, whatever its exit path;
\* and under fair scheduling every search that waits for the read lock gets
\* it and completes, and every upload that waits for the write lock completes.
C28_LockProgress ==
  /\ [](\A u \in Uploaders : pc[u] = "done" => indexLock.w # u)
  /\ [](\A s \in Searchers : pc[s] = "done" => s \notin indexLock.readers)
  /\ \A s \in Searchers : (pc[s] = "RLock") ~> (pc[s] = "done")
  /\ \A u \in Uploaders : (pc[u] = "Lock") ~> (pc[u] = "done")

\* C28 witness: two searches wait for the read lock while an upload that is
\* returning on a read error still holds the write lock.
C28_Witness ==
  \E u \in Uploaders :
    /\ \A s \in Searchers : pc[s] = "RLock"
    /\ pc[u] = "Unlock"
    /\ indexLock.w = u
    /\ indexLock.held
    /\ owner.failed

====
